---- MODULE Spec2Model ----
(***************************************************************************)
(* A model of the QdrantRAGBackend service (app/main.py, app/rag.py,       *)
(* app/qdrant_client_utils.py, app/schemas.py).                            *)
(*                                                                         *)
(* Conventions.                                                            *)
(*   - A Python str is a sequence of one-character strings: "ab" is        *)
(*     <<"a", "b">>, "" is <<>>.                                           *)
(*   - An Optional[T] is a set with at most one element: None is {} and a  *)
(*     value v is {v}.                                                     *)
(*   - A Python dict with str keys is a function from TLA+ strings (the    *)
(*     keys) to values; the empty dict is the function with empty domain.  *)
(*   - The embedding provider and the vector database are external; they   *)
(*     are modelled by the contract the service relies on (EmbeddingOf,    *)
(*     StoreUpsert, StoreSearch), the service's own code by what it does.  *)
(***************************************************************************)
EXTENDS Integers, Sequences, FiniteSets, TLC

VARIABLES
    AUTH_TOKEN,     \* main.py:16, Optional[str] read from the environment
    authorization,  \* the Authorization header of the last request ("" when missing)
    authResult,     \* outcome of verify_auth on it: "none", "pass", "401", "403"
    collections,    \* the vector database: names of the collections that exist
    store,          \* the vector database: points of the configured collection
    req,            \* per worker: the request it is serving and how far it got
    created,        \* number of create_collection calls issued for the configured name
    origin,         \* history: resolved id -> the item most recently ingested under it
    resolved        \* history: <<text, id>> of every ingested item that came without id

vars == <<AUTH_TOKEN, authorization, authResult, collections, store, req, created,
          origin, resolved>>

authVars == <<AUTH_TOKEN, authorization, authResult>>
serviceVars == <<collections, store, req, created, origin, resolved>>

(***************************************************************************)
(* Bounds of the model.                                                    *)
(***************************************************************************)
MaxTokLen == 2      \* longest token / header tail drawn for verify_auth
MaxItems == 2       \* longest item list of one /upsert request
MaxTopK == 2        \* largest top_k of one /search request

(***************************************************************************)
(* Python values.                                                          *)
(***************************************************************************)
None == {}
Some(v) == {v}
Get(o) == CHOOSE v \in o : TRUE

\* bool(x) for an Optional[str]: None and "" are falsy.
Truthy(o) == o # None /\ Get(o) # <<>>

EmptyDict == [k \in {} |-> <<>>]

\* {**a, **b}: the entries of b win.
DictMerge(a, b) ==
    [k \in DOMAIN a \cup DOMAIN b |-> IF k \in DOMAIN b THEN b[k] ELSE a[k]]

RECURSIVE StrsUpTo(_, _)
StrsUpTo(alphabet, n) ==
    IF n = 0 THEN {<<>>}
    ELSE LET shorter == StrsUpTo(alphabet, n - 1)
         IN shorter \cup {Append(s, c) : s \in shorter, c \in alphabet}

\* ord() of the characters the model uses (all ASCII, so one UTF-8 byte each).
Ord(c) ==
    CASE c = " " -> 32
      [] c = "a" -> 97
      [] c = "b" -> 98
      [] c = "x" -> 120
      [] c = "y" -> 121

\* str.encode("utf-8")
encode_utf8(s) == [i \in 1..Len(s) |-> Ord(s[i])]

(***************************************************************************)
(* hashlib.sha1(...).hexdigest(), computed as SHA-1 computes it.  A 32-bit *)
(* word is a pair <<high 16 bits, low 16 bits>>.                           *)
(***************************************************************************)
Hex4(a, b, c, d) == ((a * 16 + b) * 16 + c) * 16 + d
Word(a, b, c, d, e, f, g, h) == <<Hex4(a, b, c, d), Hex4(e, f, g, h)>>

RECURSIVE Xor16(_, _)
Xor16(a, b) ==
    IF a = 0 /\ b = 0 THEN 0 ELSE ((a + b) % 2) + 2 * Xor16(a \div 2, b \div 2)
RECURSIVE And16(_, _)
And16(a, b) ==
    IF a = 0 \/ b = 0 THEN 0 ELSE ((a % 2) * (b % 2)) + 2 * And16(a \div 2, b \div 2)
Or16(a, b) == a + b - And16(a, b)

WXor(a, b) == <<Xor16(a[1], b[1]), Xor16(a[2], b[2])>>
WAnd(a, b) == <<And16(a[1], b[1]), And16(a[2], b[2])>>
WOr(a, b) == <<Or16(a[1], b[1]), Or16(a[2], b[2])>>
WNot(a) == <<65535 - a[1], 65535 - a[2]>>
WRotl(a, n) ==
    LET x == IF n >= 16 THEN <<a[2], a[1]>> ELSE a
        m == n % 16
    IN <<((x[1] * (2 ^ m)) % 65536) + (x[2] \div (2 ^ (16 - m))),
         ((x[2] * (2 ^ m)) % 65536) + (x[1] \div (2 ^ (16 - m)))>>
WAdd(a, b) ==
    LET lo == a[2] + b[2]
    IN <<(a[1] + b[1] + (lo \div 65536)) % 65536, lo % 65536>>

Sha1H0 ==
    << Word(6,7,4,5,2,3,0,1), Word(14,15,12,13,10,11,8,9), Word(9,8,11,10,13,12,15,14),
       Word(1,0,3,2,5,4,7,6), Word(12,3,13,2,14,1,15,0) >>
Sha1K(t) ==
    IF t < 20 THEN Word(5,10,8,2,7,9,9,9)
    ELSE IF t < 40 THEN Word(6,14,13,9,14,11,10,1)
    ELSE IF t < 60 THEN Word(8,15,1,11,11,12,13,12)
    ELSE Word(12,10,6,2,12,1,13,6)
Sha1F(t, b, c, d) ==
    IF t < 20 THEN WOr(WAnd(b, c), WAnd(WNot(b), d))
    ELSE IF t < 40 THEN WXor(WXor(b, c), d)
    ELSE IF t < 60 THEN WOr(WOr(WAnd(b, c), WAnd(b, d)), WAnd(c, d))
    ELSE WXor(WXor(b, c), d)

RECURSIVE Zeros(_)
Zeros(n) == IF n = 0 THEN <<>> ELSE <<0>> \o Zeros(n - 1)

\* The message, 0x80, zeros up to 56 mod 64, and the bit length as 64 bits.
Sha1Pad(bytes) ==
    LET l == Len(bytes)
    IN bytes \o <<128>> \o Zeros((55 - l) % 64) \o Zeros(4) \o
       << ((8 * l) \div 16777216) % 256, ((8 * l) \div 65536) % 256,
          ((8 * l) \div 256) % 256, (8 * l) % 256 >>

RECURSIVE Sha1Words(_)
Sha1Words(bytes) ==
    IF Len(bytes) = 0 THEN <<>>
    ELSE << <<bytes[1] * 256 + bytes[2], bytes[3] * 256 + bytes[4]>> >>
         \o Sha1Words(SubSeq(bytes, 5, Len(bytes)))

RECURSIVE Sha1Schedule(_)
Sha1Schedule(w) ==
    IF Len(w) = 80 THEN w
    ELSE LET t == Len(w) + 1
         IN Sha1Schedule(Append(w,
                WRotl(WXor(WXor(w[t - 3], w[t - 8]), WXor(w[t - 14], w[t - 16])), 1)))

Sha1Round(s, w, t) ==
    << WAdd(WAdd(WAdd(WRotl(s[1], 5), Sha1F(t, s[2], s[3], s[4])),
                 WAdd(s[5], Sha1K(t))), w[t + 1]),
       s[1], WRotl(s[2], 30), s[3], s[4] >>

\* Rounds t .. stop-1.  The singleton sets only fix the order of evaluation.
RECURSIVE Sha1Rounds(_, _, _, _)
Sha1Rounds(s, w, t, stop) ==
    IF t = stop THEN s
    ELSE CHOOSE r \in {Sha1Rounds(n, w, t + 1, stop) : n \in {Sha1Round(s, w, t)}} : TRUE

Sha1AllRounds(h, w) ==
    CHOOSE r \in {Sha1Rounds(s3, w, 60, 80) : s3 \in
                 {Sha1Rounds(s2, w, 40, 60) : s2 \in
                 {Sha1Rounds(s1, w, 20, 40) : s1 \in {Sha1Rounds(h, w, 0, 20)}}}} : TRUE

Sha1Block(h, bytes) ==
    LET s == CHOOSE r \in {Sha1AllRounds(h, w) : w \in {Sha1Schedule(Sha1Words(bytes))}} : TRUE
    IN <<WAdd(h[1], s[1]), WAdd(h[2], s[2]), WAdd(h[3], s[3]), WAdd(h[4], s[4]),
         WAdd(h[5], s[5])>>

RECURSIVE Sha1Blocks(_, _)
Sha1Blocks(h, bytes) ==
    IF Len(bytes) = 0 THEN h
    ELSE Sha1Blocks(Sha1Block(h, SubSeq(bytes, 1, 64)), SubSeq(bytes, 65, Len(bytes)))

HexDigits == <<"0","1","2","3","4","5","6","7","8","9","a","b","c","d","e","f">>
Hex16(n) ==
    << HexDigits[(n \div 4096) + 1], HexDigits[((n \div 256) % 16) + 1],
       HexDigits[((n \div 16) % 16) + 1], HexDigits[(n % 16) + 1] >>
RECURSIVE HexOfWords(_)
HexOfWords(ws) ==
    IF Len(ws) = 0 THEN <<>>
    ELSE Hex16(ws[1][1]) \o Hex16(ws[1][2]) \o HexOfWords(Tail(ws))

sha1_hexdigest(bytes) == HexOfWords(Sha1Blocks(Sha1H0, Sha1Pad(bytes)))

(***************************************************************************)
(* main.py: verify_auth.                                                   *)
(***************************************************************************)
BearerPrefix == <<"B", "e", "a", "r", "e", "r", " ">>

\* str.startswith
startswith(s, prefix) ==
    Len(s) >= Len(prefix) /\ SubSeq(s, 1, Len(prefix)) = prefix

\* s.split(" ", 1)[1]: what follows the first space of s.
AfterFirstSpace(s) ==
    LET i == CHOOSE j \in 1..Len(s) : s[j] = " " /\ \A k \in 1..(j - 1) : s[k] # " "
    IN SubSeq(s, i + 1, Len(s))

\* str.strip(): leading and trailing whitespace removed.
RECURSIVE strip(_)
strip(s) ==
    IF Len(s) = 0 THEN s
    ELSE IF s[1] = " " THEN strip(Tail(s))
    ELSE IF s[Len(s)] = " " THEN strip(SubSeq(s, 1, Len(s) - 1))
    ELSE s

\* The outcome of verify_auth: "pass" when it returns, else the status raised.
verify_auth(token, header) ==
    LET header_token == IF startswith(header, BearerPrefix)
                        THEN strip(AfterFirstSpace(header))
                        ELSE <<>>
    IN IF ~Truthy(token) THEN "pass"
       ELSE IF ~startswith(header, BearerPrefix) THEN "401"
       ELSE IF encode_utf8(header_token) # encode_utf8(Get(token)) THEN "403"
       ELSE "pass"

TokenChars == {" ", "a", "b"}
Tokens == StrsUpTo(TokenChars, MaxTokLen)
Schemes == { <<>>, <<"B", "e", "a", "r", "e", "r">>, BearerPrefix,
             <<"b", "e", "a", "r", "e", "r", " ">>, <<"B", "a", "s", "i", "c", " ">> }
Headers == {scheme \o tail : scheme \in Schemes, tail \in Tokens}

\* A request to /upsert or /search arrives with the given Authorization header.
AuthRequest(header) ==
    /\ authorization' = header
    /\ authResult' = verify_auth(AUTH_TOKEN, header)
    /\ UNCHANGED <<AUTH_TOKEN, serviceVars>>

(***************************************************************************)
(* The inputs of the service.                                              *)
(***************************************************************************)
QDRANT_COLLECTION == "omega3-QD"    \* qdrant_client_utils.py:8, the default name
OtherCollection == "other"          \* a collection some other client created

Doc1 == <<"d", "o", "c", "1">>
TextX == <<"x">>
TextY == <<"y">>
TextXY == <<"x", "y">>

\* schemas.py: UpsertItem
UpsertItem(id, text, metadata) == [id |-> id, text |-> text, metadata |-> metadata]

\* The items a caller may send: with and without id, with the empty id, with the
\* same id or text twice, with metadata that is absent, empty, or has a "text" key.
Items ==
    { UpsertItem(None, TextX, None),
      UpsertItem(None, TextY, Some([source |-> Doc1])),
      UpsertItem(Some(<<>>), TextX, Some([source |-> Doc1])),
      UpsertItem(Some(<<"p">>), TextX, Some([text |-> TextY])),
      UpsertItem(Some(<<"p">>), TextY, None),
      UpsertItem(None, TextXY, Some(EmptyDict)) }

\* schemas.py: UpsertRequest.items
Batches == UNION {[1..n -> Items] : n \in 0..MaxItems}

\* schemas.py: SearchRequest, for valid queries (top_k >= 1)
Queries == {TextX, TextY}
TopKs == 1..MaxTopK
Thresholds == {None, Some(1)}

\* What uuid.uuid4() may return.
UUIDs == {<<"u", "1">>, <<"u", "2">>}

(***************************************************************************)
(* The external services, by the contract the service relies on.           *)
(***************************************************************************)
\* The embedding of a text (one vector per text, a function of the text): here the
\* numbers of "x" and of "y" in it.
EmbeddingOf(t) ==
    << Cardinality({i \in 1..Len(t) : t[i] = "x"}),
       Cardinality({i \in 1..Len(t) : t[i] = "y"}) >>

\* The score the store gives a point for a query vector.
Similarity(q, v) == q[1] * v[1] + q[2] * v[2]

\* Points other clients put into the configured collection: one without payload, one
\* whose payload has no "text" key.
ForeignPoints ==
    { [id |-> <<"f", "1">>, vector |-> <<1, 1>>, payload |-> None],
      [id |-> <<"f", "2">>, vector |-> <<0, 1>>, payload |-> Some([source |-> Doc1])] }

\* client.upsert: the points are applied in order, each replacing the stored point
\* of the same id.
RECURSIVE StoreUpsert(_, _)
StoreUpsert(stored, points) ==
    IF Len(points) = 0 THEN stored
    ELSE StoreUpsert({q \in stored : q.id # Head(points).id} \cup {Head(points)},
                     Tail(points))

Min(a, b) == IF a <= b THEN a ELSE b

\* client.search: the possible answers, each the `limit` best-scoring points at or
\* above the threshold, best first, points of equal score in any order.
StoreSearch(stored, vector, limit, threshold) ==
    LET score(p) == Similarity(vector, p.vector)
        cand == {p \in stored : threshold = None \/ score(p) >= Get(threshold)}
        n == Min(limit, Cardinality(cand))
        ranked == {s \in [1..n -> cand] :
                     /\ \A i, j \in 1..n : i < j =>
                            s[i] # s[j] /\ score(s[i]) >= score(s[j])
                     /\ \A q \in cand : (\A i \in 1..n : s[i] # q) =>
                            \A i \in 1..n : score(s[i]) >= score(q)}
    IN {[i \in 1..n |-> [id |-> s[i].id, score |-> score(s[i]), payload |-> s[i].payload]]
          : s \in ranked}

(***************************************************************************)
(* rag.py and qdrant_client_utils.py: the pure parts.                      *)
(***************************************************************************)
\* The digests of the texts the model ingests, computed once.
Digests == [t \in {i.text : i \in Items} |-> sha1_hexdigest(encode_utf8(t))]

\* A make_id that hashes only the first character of the text.
make_id_first_char(s, u) ==
    LET h == Digests[SubSeq(s, 1, 1)]
    IN IF h # <<>> THEN h ELSE u

\* rag.py: make_id.  u is what uuid4() would return.
make_id(s, u) ==
    LET h == Digests[s]
    IN IF h # <<>> THEN h ELSE u

\* An id resolution that draws a fresh uuid for an item without id.
resolve_id_fresh(i, u) == IF Truthy(i.id) THEN Get(i.id) ELSE u

\* rag.py:32, `i.id or make_id(i.text)`
resolve_id(i, u) == IF Truthy(i.id) THEN Get(i.id) ELSE make_id(i.text, u)

\* `d or {}` for an Optional[dict]
OrEmptyDict(d) == IF d = None THEN EmptyDict ELSE Get(d)

\* rag.py:33, `{"text": i.text, **(i.metadata or {})}`
payload_of(i) == DictMerge([text |-> i.text], OrEmptyDict(i.metadata))

\* Points built with the vectors taken in reverse order.
build_points_reversed(items, vecs, us) ==
    [k \in 1..Min(Len(items), Len(vecs)) |->
        [id |-> resolve_id(items[k], us[k]), vector |-> vecs[Len(vecs) + 1 - k],
         payload |-> Some(payload_of(items[k]))]]

\* rag.py:30-33, the points built from zip(items, vecs); us[k] is the k-th uuid4().
build_points(items, vecs, us) ==
    [k \in 1..Min(Len(items), Len(vecs)) |->
        [id |-> resolve_id(items[k], us[k]), vector |-> vecs[k],
         payload |-> Some(payload_of(items[k]))]]

\* A search_vectors that does not forward score_threshold.
search_vectors_no_threshold(stored, vector, top_k, score_threshold) ==
    StoreSearch(stored, vector, top_k, None)

\* qdrant_client_utils.py: upsert_points
upsert_points(stored, points) == StoreUpsert(stored, points)

\* qdrant_client_utils.py: search_vectors
search_vectors(stored, vector, top_k, score_threshold) ==
    StoreSearch(stored, vector, top_k, score_threshold)

\* A chunk whose metadata is the whole payload.
chunk_of_whole_payload(h) ==
    LET payload == OrEmptyDict(h.payload)
    IN [id |-> h.id,
        text |-> IF "text" \in DOMAIN payload THEN payload["text"] ELSE <<>>,
        metadata |-> payload,
        score |-> h.score]

\* rag.py:44-51, the RetrievedChunk made from one hit
chunk_of(h) ==
    LET payload == OrEmptyDict(h.payload)
    IN [id |-> h.id,
        text |-> IF "text" \in DOMAIN payload THEN payload["text"] ELSE <<>>,
        metadata |-> [k \in DOMAIN payload \ {"text"} |-> payload[k]],
        score |-> h.score]

(***************************************************************************)
(* rag.py: upsert_items and retrieve, one action per external call.  A     *)
(* worker serves one request at a time; req[p] is the frame of the call.   *)
(***************************************************************************)
Workers == {1, 2}

IdleReq ==
    [ pc |-> "idle",          \* idle, ensure, create, embed, done, failed
      op |-> "none",          \* none, upsert, search
      items |-> <<>>,         \* upsert_items: items
      query |-> <<>>,         \* retrieve: query
      top_k |-> 0,            \* retrieve: top_k
      score_threshold |-> None,
      names |-> {},           \* ensure_collection: names
      vecs |-> <<>>,          \* embed_texts: vectors
      points |-> <<>>,        \* upsert_items: points
      hits |-> <<>>,          \* retrieve: hits
      out |-> <<>>,           \* the value returned
      reingest |-> FALSE,     \* history: every item had been ingested, and not replaced
      calls |-> [list |-> 0, create |-> 0, embed |-> <<>>, upsert |-> 0, search |-> 0],
      err |-> "none" ]        \* none, embedding, conflict

\* The texts handed to embed_texts (rag.py:28 and rag.py:40).
texts_of(r) ==
    IF r.op = "upsert" THEN [k \in 1..Len(r.items) |-> r.items[k].text]
    ELSE <<r.query>>

\* POST /upsert reaches upsert_items(items).
StartUpsert(p, items) ==
    /\ req[p].pc = "idle"
    /\ req' = [req EXCEPT ![p] =
                  [IdleReq EXCEPT !.pc = "ensure", !.op = "upsert", !.items = items,
                                  !.calls.embed = [k \in 1..Len(items) |-> 0]]]
    /\ UNCHANGED <<authVars, collections, store, created, origin, resolved>>

\* POST /search reaches retrieve(query, top_k, score_threshold).
StartSearch(p, query, top_k, score_threshold) ==
    /\ req[p].pc = "idle"
    /\ req' = [req EXCEPT ![p] =
                  [IdleReq EXCEPT !.pc = "ensure", !.op = "search", !.query = query,
                                  !.top_k = top_k, !.score_threshold = score_threshold,
                                  !.calls.embed = <<0>>]]
    /\ UNCHANGED <<authVars, collections, store, created, origin, resolved>>

\* ensure_collection, lines 15-17: list the collections and look for the name.
GetCollections(p) ==
    /\ req[p].pc = "ensure"
    /\ req' = [req EXCEPT ![p].names = collections,
                          ![p].calls.list = @ + 1,
                          ![p].pc = IF QDRANT_COLLECTION \in collections
                                    THEN "embed" ELSE "create"]
    /\ UNCHANGED <<authVars, collections, store, created, origin, resolved>>

\* ensure_collection, lines 18-21: the name was not in the list, create it.  The
\* database refuses to create a collection that exists by now, and the error
\* propagates.
CreateCollection(p) ==
    /\ req[p].pc = "create"
    /\ created' = created + 1
    /\ IF QDRANT_COLLECTION \in collections
       THEN /\ req' = [req EXCEPT ![p].calls.create = @ + 1,
                                  ![p].pc = "failed", ![p].err = "conflict"]
            /\ UNCHANGED collections
       ELSE /\ req' = [req EXCEPT ![p].calls.create = @ + 1, ![p].pc = "embed"]
            /\ collections' = collections \cup {QDRANT_COLLECTION}
    /\ UNCHANGED <<authVars, store, origin, resolved>>

\* embed_texts, one turn of the loop: the provider answers.
EmbedOk(p) ==
    LET k == Len(req[p].vecs) + 1
    IN /\ req[p].pc = "embed"
       /\ k <= Len(texts_of(req[p]))
       /\ req' = [req EXCEPT ![p].vecs = Append(@, EmbeddingOf(texts_of(req[p])[k])),
                             ![p].calls.embed[k] = @ + 1]
       /\ UNCHANGED <<authVars, collections, store, created, origin, resolved>>

\* An embed_texts that tries a failed embedding again.
EmbedFail_retry(p) ==
    LET k == Len(req[p].vecs) + 1
    IN /\ req[p].pc = "embed"
       /\ k <= Len(texts_of(req[p]))
       /\ req' = [req EXCEPT ![p].calls.embed[k] = @ + 1]
       /\ UNCHANGED <<authVars, collections, store, created, origin, resolved>>

\* embed_texts, one turn of the loop: the provider fails and the error propagates
\* out of embed_texts and out of upsert_items / retrieve.
EmbedFail(p) ==
    LET k == Len(req[p].vecs) + 1
    IN /\ req[p].pc = "embed"
       /\ k <= Len(texts_of(req[p]))
       /\ req' = [req EXCEPT ![p].calls.embed[k] = @ + 1,
                             ![p].pc = "failed", ![p].err = "embedding"]
       /\ UNCHANGED <<authVars, collections, store, created, origin, resolved>>

\* The history after the points of `items` were written, in order.
RECURSIVE OriginAfter(_, _, _)
OriginAfter(o, items, points) ==
    IF Len(items) = 0 \/ Len(points) = 0 THEN o
    ELSE OriginAfter([id \in DOMAIN o \cup {Head(points).id} |->
                         IF id = Head(points).id THEN Head(items) ELSE o[id]],
                     Tail(items), Tail(points))

\* Every item of the list is the item most recently ingested under some id.
AllIngested(items) ==
    /\ Len(items) > 0
    /\ \A k \in 1..Len(items) : \E id \in DOMAIN origin : origin[id] = items[k]

\* upsert_items, lines 30-35: build the points, upsert them, return their ids.
UpsertPoints(p) ==
    /\ req[p].pc = "embed"
    /\ req[p].op = "upsert"
    /\ Len(req[p].vecs) = Len(req[p].items)
    /\ \E us \in [1..Len(req[p].items) -> UUIDs] :
          LET points == build_points(req[p].items, req[p].vecs, us)
          IN /\ store' = upsert_points(store, points)
             /\ req' = [req EXCEPT ![p].points = points,
                                   ![p].out = [k \in 1..Len(points) |-> points[k].id],
                                   ![p].calls.upsert = @ + 1,
                                   ![p].reingest = AllIngested(req[p].items),
                                   ![p].pc = "done"]
             /\ origin' = OriginAfter(origin, req[p].items, points)
             /\ resolved' = resolved \cup
                    {<<req[p].items[k].text, points[k].id>> :
                        k \in {j \in 1..Len(points) : req[p].items[j].id = None}}
    /\ UNCHANGED <<authVars, collections, created>>

\* retrieve, lines 41-53: search, map every hit to a RetrievedChunk, return them.
SearchVectors(p) ==
    /\ req[p].pc = "embed"
    /\ req[p].op = "search"
    /\ Len(req[p].vecs) = 1
    /\ \E hits \in search_vectors(store, req[p].vecs[1], req[p].top_k,
                                  req[p].score_threshold) :
          req' = [req EXCEPT ![p].hits = hits,
                             ![p].out = [k \in 1..Len(hits) |-> chunk_of(hits[k])],
                             ![p].calls.search = @ + 1,
                             ![p].pc = "done"]
    /\ UNCHANGED <<authVars, collections, store, created, origin, resolved>>

\* The response is sent (200 with the value, or 5xx) and the worker is free again.
Return(p) ==
    /\ req[p].pc \in {"done", "failed"}
    /\ req' = [req EXCEPT ![p] = IdleReq]
    /\ UNCHANGED <<authVars, collections, store, created, origin, resolved>>

Step(p) ==
    \/ GetCollections(p)
    \/ CreateCollection(p)
    \/ EmbedOk(p)
    \/ EmbedFail(p)
    \/ UpsertPoints(p)
    \/ SearchVectors(p)
    \/ Return(p)

(***************************************************************************)
(* The state at start-up.                                                  *)
(***************************************************************************)
\* The database holds another client's collection, and perhaps already the
\* configured one, empty or with that client's points in it.
InitService ==
    /\ collections \in {{OtherCollection}, {OtherCollection, QDRANT_COLLECTION}}
    /\ store \in {{}, ForeignPoints}
    /\ QDRANT_COLLECTION \notin collections => store = {}
    /\ req = [p \in Workers |-> IdleReq]
    /\ created = 0
    /\ origin = <<>>
    /\ resolved = {}

\* Any token may be configured; no request was served yet.
InitAuth ==
    /\ InitService
    /\ AUTH_TOKEN \in {None} \cup {Some(t) : t \in Tokens}
    /\ authorization = <<>>
    /\ authResult = "none"

Init ==
    /\ AUTH_TOKEN = None
    /\ authorization = <<>>
    /\ authResult = "none"
    /\ InitService

NextAuth == \E header \in Headers : AuthRequest(header)

\* The authentication of requests, whatever token is configured.
SpecAuth == InitAuth /\ [][NextAuth]_vars

\* One worker serving any sequence of requests, one after the other.
Next ==
    \/ \E items \in Batches : StartUpsert(1, items)
    \/ \E q \in Queries, k \in TopKs, th \in Thresholds : StartSearch(1, q, k, th)
    \/ Step(1)

Spec == Init /\ [][Next]_vars

\* The requests of the concurrent runs: one item, one query.
ConcBatches == {<<UpsertItem(None, TextX, None)>>}

\* Several workers serving requests at the same time, with no coordination.
NextConc ==
    \E p \in Workers :
        \/ \E items \in ConcBatches : StartUpsert(p, items)
        \/ StartSearch(p, TextX, 1, None)
        \/ Step(p)

SpecConc == Init /\ [][NextConc]_vars

\* C1: when a token is configured, a request with header 'Bearer <token>' passes, a
\* Bearer header carrying any other token gets 403 and a missing or non-Bearer header
\* gets 401; when no token is configured every request passes.  ("Any other token" is
\* read in the claim's favour: a header tail that differs from the configured token
\* only by surrounding whitespace may be answered either way.)
C1_AuthDecision ==
    authResult # "none" =>
        IF ~Truthy(AUTH_TOKEN) THEN authResult = "pass"
        ELSE IF authorization = BearerPrefix \o Get(AUTH_TOKEN) THEN authResult = "pass"
        ELSE IF ~startswith(authorization, BearerPrefix) THEN authResult = "401"
        ELSE IF strip(AfterFirstSpace(authorization)) # strip(Get(AUTH_TOKEN))
             THEN authResult = "403"
        ELSE authResult \in {"pass", "403"}

(***************************************************************************)
(* The claims.                                                             *)
(***************************************************************************)
DoneUpsert(p) == req[p].pc = "done" /\ req[p].op = "upsert"
DoneSearch(p) == req[p].pc = "done" /\ req[p].op = "search"
StoredIds(stored) == {q.id : q \in stored}

\* C2: an item (t, m) ingested and then returned as a hit comes back with top-level
\* text t and with every entry of m in its metadata, also when m has a "text" key.
C2_MetadataRoundTrip ==
    \A p \in Workers : DoneSearch(p) =>
        \A k \in 1..Len(req[p].out) :
            LET c == req[p].out[k]
            IN c.id \in DOMAIN origin =>
                  LET i == origin[c.id]
                      m == OrEmptyDict(i.metadata)
                  IN /\ c.text = i.text
                     /\ \A key \in DOMAIN m :
                            key \in DOMAIN c.metadata /\ c.metadata[key] = m[key]

\* C3: among all ingested items without an explicit id, in the same or in different
\* calls, equal texts resolve to the same id and different texts to different ids.
C3_ContentDerivedIds ==
    \A a, b \in resolved : (a[1] = b[1]) <=> (a[2] = b[2])

\* Texts x, y and xy were all ingested without id, and the call that just returned
\* ingested the same text twice.
C3_Witness ==
    /\ {a[1] : a \in resolved} = {TextX, TextY, TextXY}
    /\ \E p \in Workers : DoneUpsert(p) /\
          \E j, k \in 1..Len(req[p].items) :
              /\ j < k
              /\ req[p].items[j].id = None /\ req[p].items[k].id = None
              /\ req[p].items[j].text = req[p].items[k].text

\* The store holds at most one point per id.
OnePointPerId == \A q1, q2 \in store : q1.id = q2.id => q1 = q2

\* The point of an id carries the vector and payload of the most recent ingest for it.
LatestIngestStored ==
    \A id \in DOMAIN origin :
        \E q \in store :
            /\ q.id = id
            /\ q.vector = EmbeddingOf(origin[id].text)
            /\ q.payload = Some(payload_of(origin[id]))

\* An upsert of items that were all ingested before (and not replaced since) leaves
\* the stored points as they were.
ReingestChangesNothing ==
    \A p \in Workers :
        (req[p].pc = "embed" /\ req'[p].pc = "done" /\ req[p].op = "upsert"
            /\ AllIngested(req[p].items)) => store' = store

\* No step removes a stored point or a collection.
NothingRemoved ==
    /\ StoredIds(store) \subseteq StoredIds(store')
    /\ collections \subseteq collections'

\* C4: after any sequence of upsert_items calls the store holds at most one point per
\* resolved id, carrying the vector and payload of the most recent ingest for that id;
\* ingesting the same item again leaves the stored points as they were; and no
\* operation removes a stored point.
C4_IdempotentOverwrite ==
    /\ [](OnePointPerId /\ LatestIngestStored)
    /\ [][ReingestChangesNothing /\ NothingRemoved]_vars

\* A call that re-ingested two already ingested items has returned, and id "p" holds
\* the later of the two items ingested under it.
C4_Witness ==
    /\ \E p \in Workers : DoneUpsert(p) /\ req[p].reingest /\ Len(req[p].items) = 2
    /\ <<"p">> \in DOMAIN origin
    /\ \E q \in store : q.id = <<"p">> /\ q.vector = EmbeddingOf(TextY)
    /\ Cardinality(store) >= 3

\* C5: for every valid query and store content, retrieve returns at most top_k chunks,
\* and with a score_threshold every returned chunk has a score at or above it.
C5_ResultBounds ==
    \A p \in Workers : DoneSearch(p) =>
        /\ Len(req[p].out) <= req[p].top_k
        /\ req[p].score_threshold # None =>
              \A k \in 1..Len(req[p].out) :
                  req[p].out[k].score >= Get(req[p].score_threshold)

\* A search with a threshold returned top_k chunks although more points were stored,
\* one of them below the threshold.
C5_Witness ==
    \E p \in Workers :
        /\ DoneSearch(p)
        /\ req[p].score_threshold # None
        /\ Len(req[p].out) = req[p].top_k
        /\ Cardinality(store) > req[p].top_k
        /\ \E q \in store :
              Similarity(req[p].vecs[1], q.vector) < Get(req[p].score_threshold)

\* C6: a retrieve leaves the collections and the stored points as they were, also
\* when the configured collection does not exist yet.
C6_QueriesNeverMutate ==
    [][(\E p \in Workers : req[p].op = "search" /\ req'[p] # req[p]) =>
          (collections' = collections /\ store' = store)]_vars

\* The SHA-1 of "x" as hashlib prints it.
Sha1OfX ==
    << "1","1","f","6","a","d","8","e","c","5","2","a","2","9","8","4","a","b","a","a",
       "f","d","7","c","3","b","5","1","6","5","0","3","7","8","5","c","2","0","7","2" >>

\* The ids and the points of a returned upsert_items are aligned with its items; an
\* item has an id of its own when it has one (anyId) or a non-empty one (~anyId).
Aligned(p, anyId) ==
    /\ Len(req[p].out) = Len(req[p].items)
    /\ Len(req[p].points) = Len(req[p].items)
    /\ \A k \in 1..Len(req[p].items) :
          LET i == req[p].items[k]
              hasId == IF anyId THEN i.id # None ELSE i.id # None /\ Get(i.id) # <<>>
          IN /\ req[p].out[k] = IF hasId THEN Get(i.id) ELSE Digests[i.text]
             /\ (~hasId /\ i.text = TextX) => req[p].out[k] = Sha1OfX
             /\ req[p].points[k].id = req[p].out[k]
             /\ req[p].points[k].vector = EmbeddingOf(i.text)

\* C7 as stated: upsert_items returns one id per item in input order, the k-th being
\* the item's explicit id when one is supplied and otherwise the content hash of its
\* text, and the k-th point carries the k-th id and the embedding of the k-th text.
C7_IngestAlignmentAsStated ==
    \A p \in Workers : DoneUpsert(p) => Aligned(p, TRUE)

\* C7 as amended: the same, the k-th id being the item's explicit id when a non-empty
\* one is supplied and the content hash of its text when the id is absent or empty.
C7_IngestAlignment ==
    \A p \in Workers : DoneUpsert(p) => Aligned(p, FALSE)

\* A call returned for two items of different texts, one with an explicit id and one
\* with the empty id.
C7_Witness ==
    \E p \in Workers :
        /\ DoneUpsert(p)
        /\ Len(req[p].items) = 2
        /\ req[p].items[1].id = Some(<<"p">>)
        /\ req[p].items[2].id = Some(<<>>)
        /\ req[p].items[1].text # req[p].items[2].text

\* C8: however ingest and query requests interleave, create-collection is issued at
\* most once for the configured name and never for a collection that exists, the
\* collection exists once ensure_collection has returned, and no request fails
\* because of another request's ensure_collection.
C8_EnsureCollectionSafe ==
    /\ created <= 1
    /\ \A p \in Workers :
          /\ req[p].err # "conflict"
          /\ req[p].pc \in {"embed", "done"} => QDRANT_COLLECTION \in collections

\* Every external call of a request was made at most once, and after a failed
\* embedding nothing further was called or written.
NoRetryNoPartialWrite ==
    \A p \in Workers :
        /\ req[p].calls.list <= 1 /\ req[p].calls.create <= 1
        /\ req[p].calls.upsert <= 1 /\ req[p].calls.search <= 1
        /\ \A k \in 1..Len(req[p].calls.embed) : req[p].calls.embed[k] <= 1
        /\ req[p].err = "embedding" =>
              /\ req[p].pc = "failed"
              /\ req[p].calls.upsert = 0 /\ req[p].calls.search = 0
              /\ req[p].points = <<>> /\ req[p].out = <<>>
              /\ \A k \in 1..Len(req[p].calls.embed) :
                    k > Len(req[p].vecs) + 1 => req[p].calls.embed[k] = 0

\* The step in which an embedding fails, and every step of the failed request after
\* it, leaves the stored points unchanged; the failed request only returns.
FailureWritesNothing ==
    \A p \in Workers :
        /\ req'[p].err = "embedding" => store' = store
        /\ req[p].err = "embedding" => req'[p] \in {req[p], IdleReq}

\* C9: if an embedding call fails during upsert_items the operation ends with that
\* error, no later embedding call and no upsert is issued, the stored points are
\* unchanged, and within one request every external call is attempted at most once.
C9_FailureHandling ==
    /\ []NoRetryNoPartialWrite
    /\ [][FailureWritesNothing]_vars

\* An ingest of two items failed at the embedding of the first, with points stored.
C9_Witness ==
    \E p \in Workers :
        /\ req[p].op = "upsert" /\ req[p].err = "embedding"
        /\ Len(req[p].items) = 2 /\ Len(req[p].vecs) = 0
        /\ req[p].calls.embed = <<1, 0>>
        /\ store # {}

\* C10: the result of retrieve has the length and order of the hits; each chunk has
\* the hit's id and score, the payload's "text" as text ("" when the payload is
\* missing or has no "text"), and the payload's other entries as metadata.
C10_HitMapping ==
    \A p \in Workers : DoneSearch(p) =>
        /\ Len(req[p].out) = Len(req[p].hits)
        /\ \A k \in 1..Len(req[p].hits) :
              LET h == req[p].hits[k]
                  c == req[p].out[k]
              IN /\ c.id = h.id
                 /\ c.score = h.score
                 /\ "text" \notin DOMAIN c.metadata
                 /\ IF h.payload = None
                    THEN c.text = <<>> /\ DOMAIN c.metadata = {}
                    ELSE LET pl == Get(h.payload)
                         IN /\ c.text = IF "text" \in DOMAIN pl THEN pl["text"] ELSE <<>>
                            /\ DOMAIN c.metadata = DOMAIN pl \ {"text"}
                            /\ \A key \in DOMAIN c.metadata : c.metadata[key] = pl[key]

\* A search returned two hits, one without a payload or without "text" in it, one
\* with text and metadata.
C10_Witness ==
    \E p \in Workers :
        /\ DoneSearch(p)
        /\ Len(req[p].hits) = 2
        /\ \E k \in 1..2 : req[p].hits[k].payload = None
                           \/ "text" \notin DOMAIN Get(req[p].hits[k].payload)
        /\ \E k \in 1..2 :
              /\ req[p].hits[k].payload # None
              /\ {"text", "source"} \subseteq DOMAIN Get(req[p].hits[k].payload)

====
